---------------------------- MODULE Spec2Model ----------------------------
(***************************************************************************)
(* A model of the dual-socket key-value service.                           *)
(*                                                                         *)
(* The Public Surface (src/src/public_api.py) is served by worker          *)
(* processes and talks to the SQLite-backed DatabaseStore                  *)
(* (src/src/database.py).  The Admin Surface (src/src/local_api.py) is     *)
(* served by one process and talks to the in-memory DataStore              *)
(* (src/src/shared.py).                                                    *)
(*                                                                         *)
(* Database semantics modelled (SQLite through SQLAlchemy's default        *)
(* pysqlite driver): a SELECT runs in autocommit and holds no lock once it *)
(* has returned; the first INSERT/UPDATE/DELETE of a session takes the     *)
(* database-wide write lock, which is kept until commit; a statement that  *)
(* finds the lock held by another process either waits or, after the       *)
(* configured timeout (connect_args "timeout": 30), raises an              *)
(* SQLAlchemyError.  A write is flushed and committed inside                *)
(* session.commit(): the flush takes the lock and checks the constraints,  *)
(* the commit makes the change visible and releases the lock.  The holder  *)
(* of the lock may be in its commit, which shuts readers out as well, so a *)
(* SELECT may time out too while another process holds the lock.           *)
(*                                                                         *)
(* A worker's call ends in the state "done", where resp holds the value it *)
(* returns; respond hands it over and frees the worker for the next call.  *)
(***************************************************************************)
EXTENDS Integers, Sequences, FiniteSets, TLC

\* ------------------------------------------------------------------ bounds
MaxTime == 1
MaxRequests == 2

\* -------------------------------------------------------- program constants
max_retries == 3

\* ------------------------------------------------------------ value spaces
\* The worker processes serving the Public Surface.
Workers == {1, 2}
None == -1
\* Keys are strings, modelled as sequences of characters.
KeyA == <<"a">>
KeySecret == <<"_", "s">>
Keys == {KeyA, KeySecret}
Values == {"1", "2"}
NoKey == <<>>
NoValue == ""

\* The socket paths: "local" is /tmp/fastapi-local.sock, "admin" is
\* /tmp/fastapi-admin.sock.  The file at a path is absent, bound by the
\* running listener, or stale (left behind by a listener that is gone).
SocketPaths == {"local", "admin"}
\* The launchers: "server" starts the server by one of its entry points,
\* "admin" starts the separate admin service.
Launchers == {"server", "admin"}
ServerEntries == {"dual_server", "development", "production"}
NotRunning == [entry |-> "", pc |-> "off"]

VARIABLES
    items,        \* table data_items: a set of rows [key, value]
    metricsRows,  \* table metrics: rows in id order, [requests, last_access, uptime]
    writer,       \* the process holding SQLite's write lock, or None
    now,          \* the wall clock (datetime.utcnow / datetime.now)
    pc,           \* per worker: its position in the store call it is executing
    loc,          \* per worker: the local variables of that call
    resp,         \* per worker: the value being returned to its caller
    memData,      \* shared.DataStore._data: a dict key -> value
    memMetrics,   \* shared.DataStore._metrics
    adminResp,    \* the response the Admin Surface is sending
    sockets,      \* per socket path: the state of the file at that path
    boot          \* per launcher: the entry point it runs and its position in it

vars == <<items, metricsRows, writer, now, pc, loc, resp, memData, memMetrics, adminResp,
          sockets, boot>>

\* ---------------------------------------------------------------- helpers
\* str.startswith: the key's first character is the given one.
startswith(k, c) == Len(k) >= 1 /\ k[1] = c

\* A mutant of IsPrivate: tests the last character instead of the first.
IsPrivateEndswith(k) == Len(k) >= 1 /\ k[Len(k)] = "_"

\* k.startswith('_'), the Access Policy of public_api.py.
IsPrivate(k) == startswith(k, "_")

\* A mutant of DictOf: the values are dropped.
DictOfDropsValues(rows) == [k \in {r.key : r \in rows} |-> NoValue]

\* {item.key: item.value for item in items}
DictOf(rows) ==
    [k \in {r.key : r \in rows} |-> (CHOOSE r \in rows : r.key = k).value]

EmptyDict == [k \in {} |-> NoValue]

\* A mutant of PublicFilter: the data is returned as read.
PublicFilterOmitted(data) == data

\* {k: v for k, v in data.items() if not k.startswith('_')}
PublicFilter(data) == [k \in {x \in DOMAIN data : ~IsPrivate(x)} |-> data[k]]

\* session.query(DataItem).filter(DataItem.key == key).first()
RowsFor(k) == {r \in items : r.key = k}

\* A mutant of PrimaryKeyConflict: the table has no primary key.
NoPrimaryKey(k) == FALSE

\* The column key is the table's primary key: an INSERT of a key that is
\* already there raises IntegrityError.
PrimaryKeyConflict(k) == RowsFor(k) # {}

\* A mutant of InsertRow: the new row replaces the table's content.
InsertRowClobbers(rows, k, v) == {[key |-> k, value |-> v]}

\* INSERT INTO data_items (key, value) VALUES (k, v)
InsertRow(rows, k, v) == rows \cup {[key |-> k, value |-> v]}

\* A mutant of UpdateRow: the row found keeps its value.
UpdateRowKeepsOld(rows, k, v) == rows

\* UPDATE data_items SET value = v WHERE key = k
UpdateRow(rows, k, v) ==
    {r \in rows : r.key # k} \cup {[key |-> k, value |-> v] : r \in {x \in rows : x.key = k}}

\* Another process holds the write lock: a statement of p may time out.
LockedByOther(p) == writer # None /\ writer # p

NoLoc == [via |-> "", key |-> NoKey, value |-> NoValue, attempt |-> 0,
          found |-> FALSE, data |-> EmptyDict, mreq |-> 0, ts |-> 0]

NoResp == [op |-> "", key |-> NoKey, value |-> NoValue, status |-> 0, body |-> None]

\* ------------------------------------------------------------------- Init
Init ==
    /\ items = {}
    /\ metricsRows = <<>>
    /\ writer = None
    /\ now = 0
    /\ pc = [p \in Workers |-> "init"]
    /\ loc = [p \in Workers |-> NoLoc]
    /\ resp = [p \in Workers |-> NoResp]
    /\ memData = EmptyDict
    /\ memMetrics = [requests |-> 0, last_access |-> None, uptime |-> 0]
    /\ adminResp = NoResp
    /\ sockets = [f \in SocketPaths |-> "absent"]
    /\ boot = [l \in Launchers |-> NotRunning]

\* The clock advances.
Tick ==
    /\ now < MaxTime
    /\ now' = now + 1
    /\ UNCHANGED <<items, metricsRows, writer, pc, loc, resp, memData, memMetrics, adminResp,
                   sockets, boot>>


\* --------------------------------------------------- returning to the caller
\* A mutant of ResponseOf: POST /data reports success whatever set_data
\* returned.
ResponseOfIgnoresFailure(via, op, k, v, value) ==
    CASE via = "store" ->
           [op |-> op, key |-> k, value |-> v, status |-> 0, body |-> value]
      [] via = "public" /\ op = "get_data" ->
           [op |-> "get_public_data", key |-> k, value |-> v, status |-> 200,
            body |-> PublicFilter(value)]
      [] via = "public" /\ op = "set_data" ->
           [op |-> "set_public_data", key |-> k, value |-> v, status |-> 200,
            body |-> "Set"]
      [] via = "public" /\ op = "get_metrics" ->
           [op |-> "health_check", key |-> k, value |-> v, status |-> 200,
            body |-> value.uptime]

\* The value a store call hands back, as its caller reports it: a direct
\* caller gets the value itself, a Public Surface handler builds its response.
ResponseOf(via, op, k, v, value) ==
    CASE via = "store" ->
           [op |-> op, key |-> k, value |-> v, status |-> 0, body |-> value]
      [] via = "public" /\ op = "get_data" ->
           \* public_api.py:20-23
           [op |-> "get_public_data", key |-> k, value |-> v, status |-> 200,
            body |-> PublicFilter(value)]
      [] via = "public" /\ op = "set_data" ->
           \* public_api.py:32-35
           IF value
           THEN [op |-> "set_public_data", key |-> k, value |-> v, status |-> 200,
                 body |-> "Set"]
           ELSE [op |-> "set_public_data", key |-> k, value |-> v, status |-> 500,
                 body |-> "Failed to store data"]
      [] via = "public" /\ op = "get_metrics" ->
           \* public_api.py:40
           [op |-> "health_check", key |-> k, value |-> v, status |-> 200,
            body |-> value.uptime]

Return(p, op, value) ==
    /\ pc' = [pc EXCEPT ![p] = "done"]
    /\ resp' = [resp EXCEPT ![p] = ResponseOf(loc[p].via, op, loc[p].key, loc[p].value, value)]
    /\ loc' = [loc EXCEPT ![p] = NoLoc]

Begin(p, where, via, k, v) ==
    /\ pc[p] = "idle"
    /\ pc' = [pc EXCEPT ![p] = where]
    /\ loc' = [loc EXCEPT ![p] = [NoLoc EXCEPT !.via = via, !.key = k, !.value = v]]

\* The caller has the returned value; the worker takes the next call.
respond(p) ==
    /\ pc[p] = "done"
    /\ pc' = [pc EXCEPT ![p] = "idle"]
    /\ resp' = [resp EXCEPT ![p] = NoResp]
    /\ UNCHANGED <<items, metricsRows, writer, now, loc, memData, memMetrics, adminResp, sockets, boot>>

\* ------------------------------------- DatabaseStore._ensure_metrics_row
\* The end of one attempt of the loop that raised SQLAlchemyError.
EnsureAttemptFailed(p) ==
    IF loc[p].attempt = max_retries - 1
    THEN /\ pc' = [pc EXCEPT ![p] = "init_fallback"]
         /\ loc' = loc
    ELSE /\ pc' = [pc EXCEPT ![p] = "init"]
         /\ loc' = [loc EXCEPT ![p].attempt = @ + 1]

\* database.py:72  session.query(Metrics).with_for_update().first()
\* (FOR UPDATE is not rendered for SQLite); a row found: commit, break.
ensure_metrics_row_first(p) ==
    /\ pc[p] = "init"
    /\ IF metricsRows # <<>>
       THEN /\ pc' = [pc EXCEPT ![p] = "idle"]
            /\ loc' = [loc EXCEPT ![p] = NoLoc]
       ELSE /\ pc' = [pc EXCEPT ![p] = "init_recheck"]
            /\ loc' = loc
    /\ UNCHANGED <<items, metricsRows, writer, now, resp, memData, memMetrics, adminResp, sockets, boot>>

\* database.py:75-78  the second query, then Metrics(requests=0, uptime=utcnow())
ensure_metrics_row_recheck(p) ==
    /\ pc[p] = "init_recheck"
    /\ IF metricsRows # <<>>
       THEN /\ pc' = [pc EXCEPT ![p] = "idle"]
            /\ loc' = [loc EXCEPT ![p] = NoLoc]
       ELSE /\ pc' = [pc EXCEPT ![p] = "init_flush"]
            /\ loc' = [loc EXCEPT ![p].ts = now]
    /\ UNCHANGED <<items, metricsRows, writer, now, resp, memData, memMetrics, adminResp, sockets, boot>>

\* database.py:79  session.commit(): the INSERT is flushed, taking the write lock
ensure_metrics_row_flush(p) ==
    /\ pc[p] = "init_flush"
    /\ writer = None
    /\ writer' = p
    /\ pc' = [pc EXCEPT ![p] = "init_commit"]
    /\ UNCHANGED <<items, metricsRows, now, loc, resp, memData, memMetrics, adminResp, sockets, boot>>

\* database.py:79-80  ... and committed; the id is the next free one
ensure_metrics_row_commit(p) ==
    /\ pc[p] = "init_commit"
    /\ metricsRows' = Append(metricsRows,
           [requests |-> 0, last_access |-> None, uptime |-> loc[p].ts])
    /\ writer' = None
    /\ pc' = [pc EXCEPT ![p] = "idle"]
    /\ loc' = [loc EXCEPT ![p] = NoLoc]
    /\ UNCHANGED <<items, now, resp, memData, memMetrics, adminResp, sockets, boot>>

\* database.py:81-91  a statement of the attempt timed out on the lock
ensure_metrics_row_error(p) ==
    /\ pc[p] \in {"init", "init_recheck", "init_flush"}
    /\ LockedByOther(p)
    /\ EnsureAttemptFailed(p)
    /\ UNCHANGED <<items, metricsRows, writer, now, resp, memData, memMetrics, adminResp, sockets, boot>>

\* database.py:84-90  the last attempt failed: INSERT OR IGNORE without an id
\* (nothing to conflict with, so a row is added), or that fails too and the
\* bare except swallows it.
ensure_metrics_row_fallback(p) ==
    /\ pc[p] = "init_fallback"
    /\ \E inserted \in BOOLEAN :
         /\ inserted => writer = None
         /\ metricsRows' =
              IF inserted
              THEN Append(metricsRows, [requests |-> 0, last_access |-> None, uptime |-> now])
              ELSE metricsRows
    /\ pc' = [pc EXCEPT ![p] = "idle"]
    /\ loc' = [loc EXCEPT ![p] = NoLoc]
    /\ UNCHANGED <<items, writer, now, resp, memData, memMetrics, adminResp, sockets, boot>>

\* ------------------------------------------------- DatabaseStore.get_data
\* The request counter is capped to keep the model finite.
CounterRoom == IF metricsRows = <<>> THEN TRUE ELSE Head(metricsRows).requests < MaxRequests

\* database.py:93  a direct call of store.get_data()
get_data(p) ==
    /\ CounterRoom
    /\ Begin(p, "gd_read", "store", NoKey, NoValue)
    /\ UNCHANGED <<items, metricsRows, writer, now, resp, memData, memMetrics, adminResp, sockets, boot>>

\* database.py:98-100  the records are read
get_data_read(p) ==
    /\ pc[p] = "gd_read"
    /\ pc' = [pc EXCEPT ![p] = "gd_metrics"]
    /\ loc' = [loc EXCEPT ![p].data = DictOf(items)]
    /\ UNCHANGED <<items, metricsRows, writer, now, resp, memData, memMetrics, adminResp, sockets, boot>>

\* database.py:101-102  the read raised: data stays {}
get_data_read_error(p) ==
    /\ pc[p] = "gd_read"
    /\ LockedByOther(p)
    /\ pc' = [pc EXCEPT ![p] = "gd_metrics"]
    /\ UNCHANGED <<items, metricsRows, writer, now, loc, resp, memData, memMetrics, adminResp, sockets, boot>>

\* database.py:107-110  metrics = query.first(); requests + 1 is computed from
\* the value read; without a row nothing is written and data is returned
get_data_metrics_query(p) ==
    /\ pc[p] = "gd_metrics"
    /\ IF metricsRows = <<>>
       THEN Return(p, "get_data", loc[p].data)
       ELSE /\ pc' = [pc EXCEPT ![p] = "gd_flush"]
            /\ loc' = [loc EXCEPT ![p].mreq = Head(metricsRows).requests, ![p].ts = now]
            /\ resp' = resp
    /\ UNCHANGED <<items, metricsRows, writer, now, memData, memMetrics, adminResp, sockets, boot>>

\* database.py:111  session.commit(): the UPDATE is flushed, taking the lock
get_data_metrics_flush(p) ==
    /\ pc[p] = "gd_flush"
    /\ writer = None
    /\ writer' = p
    /\ pc' = [pc EXCEPT ![p] = "gd_commit"]
    /\ UNCHANGED <<items, metricsRows, now, loc, resp, memData, memMetrics, adminResp, sockets, boot>>

\* UPDATE metrics SET requests = <req + 1>, last_access = <ts> WHERE id = <first row>
MetricsUpdate(rows, req, ts) ==
    [rows EXCEPT ![1] = [@ EXCEPT !.requests = req + 1, !.last_access = ts]]

\* database.py:111-115  ... and committed; data is returned
get_data_metrics_commit(p) ==
    /\ pc[p] = "gd_commit"
    /\ metricsRows' = MetricsUpdate(metricsRows, loc[p].mreq, loc[p].ts)
    /\ writer' = None
    /\ Return(p, "get_data", loc[p].data)
    /\ UNCHANGED <<items, now, memData, memMetrics, adminResp, sockets, boot>>

\* A mutant of get_data_metrics_error: the failed update loses the data read.
get_data_metrics_error_loses(p) ==
    /\ pc[p] \in {"gd_metrics", "gd_flush"}
    /\ LockedByOther(p)
    /\ Return(p, "get_data", EmptyDict)
    /\ UNCHANGED <<items, metricsRows, writer, now, memData, memMetrics, adminResp, sockets, boot>>

\* database.py:112-115  the metrics update raised: swallowed, data is returned
get_data_metrics_error(p) ==
    /\ pc[p] \in {"gd_metrics", "gd_flush"}
    /\ LockedByOther(p)
    /\ Return(p, "get_data", loc[p].data)
    /\ UNCHANGED <<items, metricsRows, writer, now, memData, memMetrics, adminResp, sockets, boot>>


\* ------------------------------------------------- DatabaseStore.set_data
\* A mutant of SetAttemptFailed: the first failed attempt returns False.
SetAttemptFailedGivesUp(p) == Return(p, "set_data", FALSE)

\* database.py:136-140  the attempt raised SQLAlchemyError: rollback, then the
\* next attempt, or False after the last one
SetAttemptFailed(p) ==
    IF loc[p].attempt = max_retries - 1
    THEN Return(p, "set_data", FALSE)
    ELSE /\ pc' = [pc EXCEPT ![p] = "sd_query"]
         /\ loc' = [loc EXCEPT ![p].attempt = @ + 1, ![p].found = FALSE]
         /\ resp' = resp

\* database.py:117  a direct call of store.set_data(key, value)
set_data(p, k, v) ==
    /\ Begin(p, "sd_query", "store", k, v)
    /\ UNCHANGED <<items, metricsRows, writer, now, resp, memData, memMetrics, adminResp, sockets, boot>>

\* database.py:124  item = query.filter(DataItem.key == key).first()
set_data_query(p) ==
    /\ pc[p] = "sd_query"
    /\ pc' = [pc EXCEPT ![p] = "sd_flush"]
    /\ loc' = [loc EXCEPT ![p].found = (RowsFor(loc[p].key) # {})]
    /\ UNCHANGED <<items, metricsRows, writer, now, resp, memData, memMetrics, adminResp, sockets, boot>>

\* database.py:126-133  session.commit() flushes the UPDATE (item found) or the
\* INSERT (item not found) under the write lock.  An UPDATE that matches no row
\* raises StaleDataError, an INSERT of a key that is there raises
\* IntegrityError; both are SQLAlchemyErrors and end the attempt.
set_data_flush(p) ==
    /\ pc[p] = "sd_flush"
    /\ writer = None
    /\ IF (loc[p].found /\ RowsFor(loc[p].key) = {})
          \/ (~loc[p].found /\ PrimaryKeyConflict(loc[p].key))
       THEN /\ SetAttemptFailed(p)
            /\ writer' = writer
       ELSE /\ writer' = p
            /\ pc' = [pc EXCEPT ![p] = "sd_commit"]
            /\ UNCHANGED <<loc, resp>>
    /\ UNCHANGED <<items, metricsRows, now, memData, memMetrics, adminResp, sockets, boot>>

\* database.py:133-134  the write is committed and True returned
set_data_commit(p) ==
    /\ pc[p] = "sd_commit"
    /\ items' = IF loc[p].found
                THEN UpdateRow(items, loc[p].key, loc[p].value)
                ELSE InsertRow(items, loc[p].key, loc[p].value)
    /\ writer' = None
    /\ Return(p, "set_data", TRUE)
    /\ UNCHANGED <<metricsRows, now, memData, memMetrics, adminResp, sockets, boot>>

\* database.py:136-140  a statement of the attempt timed out on the lock
set_data_error(p) ==
    /\ pc[p] \in {"sd_query", "sd_flush"}
    /\ LockedByOther(p)
    /\ SetAttemptFailed(p)
    /\ UNCHANGED <<items, metricsRows, writer, now, memData, memMetrics, adminResp, sockets, boot>>

\* ---------------------------------------------- DatabaseStore.get_metrics
\* A mutant of MetricsSnapshot: uptime is taken from the clock at the call.
MetricsSnapshotClock ==
    IF metricsRows = <<>>
    THEN [requests |-> 0, last_access |-> None, uptime |-> now]
    ELSE [Head(metricsRows) EXCEPT !.uptime = now]

\* database.py:147-155
MetricsSnapshot ==
    IF metricsRows = <<>>
    THEN [requests |-> 0, last_access |-> None, uptime |-> now]
    ELSE Head(metricsRows)

\* A mutant of DefaultSnapshot: the default carries a stale access time.
DefaultSnapshotStale == [requests |-> 0, last_access |-> 0, uptime |-> now]

\* database.py:149, 158  the default snapshot
DefaultSnapshot == [requests |-> 0, last_access |-> None, uptime |-> now]

GetMetricsAs(p, via, value) ==
    /\ pc[p] = "idle"
    /\ pc' = [pc EXCEPT ![p] = "done"]
    /\ resp' = [resp EXCEPT ![p] = ResponseOf(via, "get_metrics", NoKey, NoValue, value)]
    /\ UNCHANGED <<items, metricsRows, writer, now, loc, memData, memMetrics, adminResp, sockets, boot>>

\* database.py:143-155  a direct call of store.get_metrics()
get_metrics(p) == GetMetricsAs(p, "store", MetricsSnapshot)

\* database.py:157-158  the query raised
get_metrics_error(p) ==
    /\ LockedByOther(p)
    /\ GetMetricsAs(p, "store", DefaultSnapshot)

\* ----------------------------------------------- DatabaseStore.reset_data
\* database.py:160  a direct call of store.reset_data()
reset_data(p) ==
    /\ Begin(p, "rs_delete", "store", NoKey, NoValue)
    /\ UNCHANGED <<items, metricsRows, writer, now, resp, memData, memMetrics, adminResp, sockets, boot>>

\* database.py:164  session.query(DataItem).delete() takes the write lock
reset_data_delete(p) ==
    /\ pc[p] = "rs_delete"
    /\ writer = None
    /\ writer' = p
    /\ pc' = [pc EXCEPT ![p] = "rs_commit"]
    /\ UNCHANGED <<items, metricsRows, now, loc, resp, memData, memMetrics, adminResp, sockets, boot>>

\* A mutant of DeleteAll: the private records survive the reset.
DeleteAllPublic(rows) == {r \in rows : r.key[1] = "_"}

\* DELETE FROM data_items
DeleteAll(rows) == {}

\* database.py:165-166  ... committed, True returned
reset_data_commit(p) ==
    /\ pc[p] = "rs_commit"
    /\ items' = DeleteAll(items)
    /\ writer' = None
    /\ Return(p, "reset_data", TRUE)
    /\ UNCHANGED <<metricsRows, now, memData, memMetrics, adminResp, sockets, boot>>

\* database.py:168-170  the DELETE timed out on the lock: rollback, False
reset_data_error(p) ==
    /\ pc[p] = "rs_delete"
    /\ LockedByOther(p)
    /\ Return(p, "reset_data", FALSE)
    /\ UNCHANGED <<items, metricsRows, writer, now, memData, memMetrics, adminResp, sockets, boot>>

\* ------------------------------------------------ Public Surface handlers
\* public_api.py:17-23  GET /data
get_public_data(p) ==
    /\ CounterRoom
    /\ Begin(p, "gd_read", "public", NoKey, NoValue)
    /\ UNCHANGED <<items, metricsRows, writer, now, resp, memData, memMetrics, adminResp, sockets, boot>>

\* public_api.py:25-35  POST /data
set_public_data(p, k, v) ==
    /\ pc[p] = "idle"
    /\ IF IsPrivate(k)
       THEN /\ resp' = [resp EXCEPT ![p] =
                 [op |-> "set_public_data", key |-> k, value |-> v, status |-> 403,
                  body |-> "Cannot set private keys via public API"]]
            /\ pc' = [pc EXCEPT ![p] = "done"]
            /\ loc' = loc
       ELSE /\ Begin(p, "sd_query", "public", k, v)
            /\ resp' = resp
    /\ UNCHANGED <<items, metricsRows, writer, now, memData, memMetrics, adminResp, sockets, boot>>

\* A handler that answers with a constant and touches no store.
Probe(p, name, body) ==
    /\ pc[p] = "idle"
    /\ pc' = [pc EXCEPT ![p] = "done"]
    /\ resp' = [resp EXCEPT ![p] =
           [op |-> name, key |-> NoKey, value |-> NoValue, status |-> 200, body |-> body]]
    /\ UNCHANGED <<items, metricsRows, writer, now, loc, memData, memMetrics, adminResp, sockets, boot>>

\* public_api.py:12-15  GET /
read_root(p) == Probe(p, "read_root", "ok")

\* production.py:56-59  GET /health/ready
readiness_check(p) == Probe(p, "readiness_check", "ready")

\* production.py:61-64  GET /health/live
liveness_check(p) == Probe(p, "liveness_check", "alive")

\* A mutant of health_check: the probe is counted as a request.
health_check_counts(p) ==
    /\ pc[p] = "idle"
    /\ CounterRoom
    /\ metricsRows' = MetricsUpdate(metricsRows, Head(metricsRows).requests, now)
    /\ pc' = [pc EXCEPT ![p] = "done"]
    /\ resp' = [resp EXCEPT ![p] =
           ResponseOf("public", "get_metrics", NoKey, NoValue, MetricsSnapshot)]
    /\ UNCHANGED <<items, writer, now, loc, memData, memMetrics, adminResp, sockets, boot>>

\* public_api.py:37-40  GET /health
health_check(p) == GetMetricsAs(p, "public", MetricsSnapshot)

\* public_api.py:40 with database.py:157-158  GET /health, the query raised
health_check_error(p) ==
    /\ LockedByOther(p)
    /\ GetMetricsAs(p, "public", DefaultSnapshot)


\* ------------------------------------------------------- shared.DataStore
\* shared.py:22  self._data[key] = value
DictSet(d, k, v) == [x \in DOMAIN d \cup {k} |-> IF x = k THEN v ELSE d[x]]

\* shared.py:17-18  requests += 1; last_access = datetime.now()
DataStoreTouch(m) == [m EXCEPT !.requests = @ + 1, !.last_access = now]

MemCounterRoom == memMetrics.requests < MaxRequests

\* ------------------------------------------------- Admin Surface handlers
\* local_api.py:17-20  GET /admin/metrics
local_get_metrics ==
    /\ adminResp = NoResp
    /\ adminResp' = [op |-> "get_metrics", key |-> NoKey, value |-> NoValue,
                     status |-> 200, body |-> memMetrics]
    /\ UNCHANGED <<items, metricsRows, writer, now, pc, loc, resp, memData, memMetrics, sockets, boot>>

\* local_api.py:22-25  GET /admin/data/all
get_all_data ==
    /\ adminResp = NoResp
    /\ MemCounterRoom
    /\ memMetrics' = DataStoreTouch(memMetrics)
    /\ adminResp' = [op |-> "get_all_data", key |-> NoKey, value |-> NoValue,
                     status |-> 200, body |-> memData]
    /\ UNCHANGED <<items, metricsRows, writer, now, pc, loc, resp, memData, sockets, boot>>

\* local_api.py:27-31  POST /admin/data
set_admin_data(k, v) ==
    /\ adminResp = NoResp
    /\ memData' = DictSet(memData, k, v)
    /\ adminResp' = [op |-> "set_admin_data", key |-> k, value |-> v,
                     status |-> 200, body |-> "Admin set"]
    /\ UNCHANGED <<items, metricsRows, writer, now, pc, loc, resp, memMetrics, sockets, boot>>

\* local_api.py:33-37  DELETE /admin/data/reset
reset_all_data ==
    /\ adminResp = NoResp
    /\ memData' = EmptyDict
    /\ adminResp' = [op |-> "reset_all_data", key |-> NoKey, value |-> NoValue,
                     status |-> 200, body |-> "All data reset"]
    /\ UNCHANGED <<items, metricsRows, writer, now, pc, loc, resp, memMetrics, sockets, boot>>

\* A mutant of admin_status: the metrics are taken after the records are read.
admin_status_metrics_last ==
    /\ adminResp = NoResp
    /\ MemCounterRoom
    /\ memMetrics' = DataStoreTouch(memMetrics)
    /\ adminResp' = [op |-> "admin_status", key |-> NoKey, value |-> NoValue,
                     status |-> 200,
                     body |-> [metrics |-> DataStoreTouch(memMetrics),
                               data_items |-> Cardinality(DOMAIN memData)]]
    /\ UNCHANGED <<items, metricsRows, writer, now, pc, loc, resp, memData, sockets, boot>>

\* local_api.py:39-48  GET /admin/status
admin_status ==
    /\ adminResp = NoResp
    /\ MemCounterRoom
    /\ memMetrics' = DataStoreTouch(memMetrics)
    /\ adminResp' = [op |-> "admin_status", key |-> NoKey, value |-> NoValue,
                     status |-> 200,
                     body |-> [metrics |-> memMetrics,
                               data_items |-> Cardinality(DOMAIN memData)]]
    /\ UNCHANGED <<items, metricsRows, writer, now, pc, loc, resp, memData, sockets, boot>>

\* The response is sent; the Admin Surface takes the next request.
local_respond ==
    /\ adminResp # NoResp
    /\ adminResp' = NoResp
    /\ UNCHANGED <<items, metricsRows, writer, now, pc, loc, resp, memData, memMetrics, sockets, boot>>

\* ---------------------------------------------------------------- startup
\* A mutant of unlink: the file is left where it is.
unlink_skipped(f) == f

\* Path(socket_path).unlink(missing_ok=True): the file is gone afterwards,
\* whether it was there or not.
unlink(f) == "absent"

\* The socket the entry point's admin listener binds: dual_server.py:14,
\* admin_service.py:15
socket_path(entry) == IF entry = "admin_service" THEN "admin" ELSE "local"

\* What a process leaves behind when it ends without removing its socket.
Abandoned(f) == IF f = "bound" THEN "stale" ELSE f

\* An entry point is started: dual_server.main, admin_service.main,
\* server.start_development or server.start_production.
launch(l, entry) ==
    /\ boot[l].pc = "off"
    /\ boot' = [boot EXCEPT ![l] =
           [entry |-> entry,
            pc |-> IF entry \in {"development", "production"} THEN "cleanup" ELSE "unlink"]]
    /\ UNCHANGED <<items, metricsRows, writer, now, pc, loc, resp, memData, memMetrics,
                   adminResp, sockets>>

\* server.py:28-32  cleanup_processes: pkill of the admin service, whose
\* command line the pattern may or may not match; a killed service leaves the
\* socket it had bound
kill_processes(l) ==
    /\ boot[l].pc \in {"cleanup", "exit_cleanup"}
    /\ \E killed \in BOOLEAN :
         /\ boot' = [m \in Launchers |->
                       IF m = l
                       THEN [boot[l] EXCEPT !.pc = IF boot[l].pc = "cleanup"
                                                   THEN "cleanup_files"
                                                   ELSE "exit_cleanup_files"]
                       ELSE IF killed /\ boot[m].entry = "admin_service"
                            THEN NotRunning
                            ELSE boot[m]]
         /\ sockets' = [sockets EXCEPT !["admin"] =
                           IF killed /\ boot["admin"].pc = "serving"
                           THEN Abandoned(@) ELSE @]
    /\ UNCHANGED <<items, metricsRows, writer, now, pc, loc, resp, memData, memMetrics,
                   adminResp>>

\* server.py:35-49  cleanup_processes: both socket files are removed; then
\* the start goes on, or the process ends
cleanup_processes(l) ==
    /\ boot[l].pc \in {"cleanup_files", "exit_cleanup_files"}
    /\ sockets' = [f \in SocketPaths |-> unlink(sockets[f])]
    /\ boot' = [boot EXCEPT ![l] =
           IF boot[l].pc = "exit_cleanup_files" THEN NotRunning
           ELSE IF boot[l].entry = "production" THEN [@ EXCEPT !.pc = "check_port"]
           ELSE [@ EXCEPT !.pc = "unlink"]]
    /\ UNCHANGED <<items, metricsRows, writer, now, pc, loc, resp, memData, memMetrics,
                   adminResp>>

\* server.py:91-93  start_production: the port is free, or sys.exit(1)
check_port_available(l) ==
    /\ boot[l].pc = "check_port"
    /\ \E available \in BOOLEAN :
         boot' = [boot EXCEPT ![l] = IF available THEN [@ EXCEPT !.pc = "unlink"]
                                     ELSE NotRunning]
    /\ UNCHANGED <<items, metricsRows, writer, now, pc, loc, resp, memData, memMetrics,
                   adminResp, sockets>>

\* dual_server.py:17, admin_service.py:18  the socket file is removed
remove_socket(l) ==
    /\ boot[l].pc = "unlink"
    /\ sockets' = [sockets EXCEPT ![socket_path(boot[l].entry)] = unlink(@)]
    /\ boot' = [boot EXCEPT ![l].pc = "bind"]
    /\ UNCHANGED <<items, metricsRows, writer, now, pc, loc, resp, memData, memMetrics,
                   adminResp>>

\* dual_server.py:26-37, admin_service.py:21-33  the admin listener binds the
\* socket path and serves
serve(l) ==
    /\ boot[l].pc = "bind"
    /\ sockets' = [sockets EXCEPT ![socket_path(boot[l].entry)] = "bound"]
    /\ boot' = [boot EXCEPT ![l].pc = "serving"]
    /\ UNCHANGED <<items, metricsRows, writer, now, pc, loc, resp, memData, memMetrics,
                   adminResp>>

\* dual_server.py:38-41, admin_service.py:34-36  KeyboardInterrupt: the socket
\* file is removed on the way out; server.py:79-81, 125-129  a start by
\* server.py runs cleanup_processes once more
shutdown(l) ==
    /\ boot[l].pc = "serving"
    /\ sockets' = [sockets EXCEPT ![socket_path(boot[l].entry)] = unlink(@)]
    /\ boot' = [boot EXCEPT ![l] =
           IF boot[l].entry \in {"development", "production"}
           THEN [@ EXCEPT !.pc = "exit_cleanup"]
           ELSE NotRunning]
    /\ UNCHANGED <<items, metricsRows, writer, now, pc, loc, resp, memData, memMetrics,
                   adminResp>>

\* The process is killed at any point: a socket it had bound stays behind.
crash(l) ==
    /\ boot[l].pc # "off"
    /\ sockets' = [sockets EXCEPT ![socket_path(boot[l].entry)] =
                      IF boot[l].pc = "serving" THEN Abandoned(@) ELSE @]
    /\ boot' = [boot EXCEPT ![l] = NotRunning]
    /\ UNCHANGED <<items, metricsRows, writer, now, pc, loc, resp, memData, memMetrics,
                   adminResp>>

\* ------------------------------------------------------- specifications
\* One worker has run DatabaseStore.__init__ on a fresh database file and the
\* other after it: the tables exist, the metrics row is there, both are idle.
InitBooted ==
    /\ items = {}
    /\ metricsRows = <<[requests |-> 0, last_access |-> None, uptime |-> 0]>>
    /\ writer = None
    /\ now = 0
    /\ pc = [p \in Workers |-> "idle"]
    /\ loc = [p \in Workers |-> NoLoc]
    /\ resp = [p \in Workers |-> NoResp]
    /\ memData = EmptyDict
    /\ memMetrics = [requests |-> 0, last_access |-> None, uptime |-> 0]
    /\ adminResp = NoResp
    /\ sockets = [f \in SocketPaths |-> "absent"]
    /\ boot = [l \in Launchers |-> NotRunning]

\* The steps of DatabaseStore.__init__, when no statement fails.
EnsureStep(p) ==
    \/ ensure_metrics_row_first(p)
    \/ ensure_metrics_row_recheck(p)
    \/ ensure_metrics_row_flush(p)
    \/ ensure_metrics_row_commit(p)

\* A statement of DatabaseStore.__init__ fails on the lock timeout.
EnsureFault(p) ==
    \/ ensure_metrics_row_error(p)
    \/ ensure_metrics_row_fallback(p)

\* The steps of get_data and set_data in progress, when no statement fails.
CallStep(p) ==
    \/ get_data_read(p)
    \/ get_data_metrics_query(p)
    \/ get_data_metrics_flush(p)
    \/ get_data_metrics_commit(p)
    \/ set_data_query(p)
    \/ set_data_flush(p)
    \/ set_data_commit(p)
    \/ respond(p)

\* The steps of reset_data in progress, when no statement fails.
ResetStep(p) ==
    \/ reset_data_delete(p)
    \/ reset_data_commit(p)

\* A statement of get_data or set_data fails because another process holds
\* the lock past the timeout.
CallFault(p) ==
    \/ get_data_read_error(p)
    \/ get_data_metrics_error(p)
    \/ set_data_error(p)

\* Direct calls of the store's methods.
StoreCall(p) ==
    \/ get_data(p)
    \/ \E k \in Keys, v \in Values : set_data(p, k, v)
    \/ get_metrics(p)
    \/ reset_data(p)

\* Requests to the Public Surface.
PublicCall(p) ==
    \/ get_public_data(p)
    \/ \E k \in Keys, v \in Values : set_public_data(p, k, v)
    \/ health_check(p)

\* Requests to the Admin Surface.
AdminCall ==
    \/ local_get_metrics
    \/ get_all_data
    \/ \E k \in Keys, v \in Values : set_admin_data(k, v)
    \/ reset_all_data
    \/ admin_status
    \/ local_respond

\* The store under concurrent direct calls from the worker processes.
NextStore ==
    \E p \in Workers :
        \/ CallStep(p) \/ ResetStep(p) \/ StoreCall(p)
        \/ CallFault(p) \/ reset_data_error(p) \/ get_metrics_error(p)

SpecStore == InitBooted /\ [][NextStore]_vars

\* A process inside set_data keeps executing: each statement of an attempt
\* returns, with its result or, after the lock timeout, with an error.
SetDataStep(p) ==
    \/ set_data_query(p)
    \/ set_data_flush(p)
    \/ set_data_commit(p)
    \/ set_data_error(p)

SpecStoreFair == SpecStore /\ \A p \in Workers : WF_vars(SetDataStep(p))

\* The two surfaces under requests, one at a time on each: the Public Surface
\* served by a worker process, the Admin Surface by its own process.  The
\* worker's store also takes direct set_data calls, the one way a private key
\* can get into it.
NextSurfaces ==
    \/ CallStep(1) \/ PublicCall(1)
    \/ \E k \in Keys, v \in Values : set_data(1, k, v)
    \/ AdminCall

SpecSurfaces == InitBooted /\ [][NextSurfaces]_vars

\* Each worker writes its own key, so that concurrent set calls are to
\* distinct keys; nothing is reset.
OwnKey(p) == IF p = 1 THEN KeyA ELSE KeySecret

NextDistinct ==
    \E p \in Workers :
        \/ \E v \in Values : set_data(p, OwnKey(p), v)
        \/ get_data(p)
        \/ CallStep(p)
        \/ CallFault(p)

SpecDistinct == InitBooted /\ [][NextDistinct]_vars

\* The worker processes start on a fresh database file.
NextInit ==
    \/ Tick
    \/ \E p \in Workers : EnsureStep(p) \/ EnsureFault(p)

SpecInit == Init /\ [][NextInit]_vars

\* No store call is in progress.
Quiet == \A q \in Workers : pc[q] \in {"init", "idle", "done"}

\* A caller that issues its calls one after the other.
SeqStoreCall(p) == Quiet /\ StoreCall(p)

SeqSetData(p) == Quiet /\ \E k \in Keys, v \in Values : set_data(p, k, v)

SeqResetData(p) == Quiet /\ reset_data(p)

\* The store under calls issued one after the other (by either worker), from
\* a fresh database file, with the clock running.
NextSeq ==
    \/ Tick
    \/ \E p \in Workers :
          \/ EnsureStep(p)
          \/ SeqStoreCall(p)
          \/ CallStep(p)
          \/ ResetStep(p)

SpecSeq == Init /\ [][NextSeq]_vars

\* Writes and resets issued one after the other, to the worker processes'
\* store and to the Admin Surface.
NextIdem ==
    \/ \E p \in Workers :
          \/ SeqSetData(p)
          \/ SeqResetData(p)
          \/ set_data_query(p)
          \/ set_data_flush(p)
          \/ set_data_commit(p)
          \/ ResetStep(p)
          \/ respond(p)
    \/ \E k \in Keys, v \in Values : set_admin_data(k, v)
    \/ reset_all_data
    \/ local_respond

SpecIdem == InitBooted /\ [][NextIdem]_vars

\* The worker processes start on a fresh database file, where an
\* initialization may give up and leave no metrics row for a while, and read
\* the records and the metrics, with lock timeouts.
NextMetrics ==
    \/ Tick
    \/ \E p \in Workers :
          \/ EnsureStep(p) \/ EnsureFault(p)
          \/ get_data(p)
          \/ get_data_read(p)
          \/ get_data_metrics_query(p)
          \/ get_data_metrics_flush(p)
          \/ get_data_metrics_commit(p)
          \/ get_data_metrics_error(p)
          \/ get_metrics(p)
          \/ get_metrics_error(p)
          \/ respond(p)

SpecMetrics == Init /\ [][NextMetrics]_vars

\* The health probes of the Public Surface.
ProbeCall(p) ==
    \/ read_root(p)
    \/ health_check(p)
    \/ health_check_error(p)
    \/ readiness_check(p)
    \/ liveness_check(p)

\* The Public Surface served by the worker processes, under requests and
\* probes, with lock timeouts.
NextPublic ==
    \E p \in Workers :
        \/ get_public_data(p)
        \/ \E k \in Keys, v \in Values : set_public_data(p, k, v)
        \/ ProbeCall(p)
        \/ CallStep(p)
        \/ CallFault(p)

SpecPublic == InitBooted /\ [][NextPublic]_vars

\* The server and the admin service are started, stopped, killed and started
\* again, each by its launcher.
NextStartup ==
    \/ \E entry \in ServerEntries : launch("server", entry)
    \/ launch("admin", "admin_service")
    \/ \E l \in Launchers :
          \/ kill_processes(l)
          \/ cleanup_processes(l)
          \/ check_port_available(l)
          \/ remove_socket(l)
          \/ serve(l)
          \/ shutdown(l)
          \/ crash(l)

SpecStartup == Init /\ [][NextStartup]_vars

\* ------------------------------------------------------------- claims
\* C1: a key that starts with '_' never appears in the data returned by
\* Public GET /data, whatever was written before, by a direct write of the
\* worker's store or by Admin POST /admin/data.
C1_Isolation ==
    \A p \in Workers :
        (pc[p] = "done" /\ resp[p].op = "get_public_data")
            => \A k \in DOMAIN resp[p].body : k[1] # "_"

\* A Public GET /data is answering with a public record while the worker's
\* store holds a private record and the Admin Surface has written one too.
C1_Witness ==
    /\ pc[1] = "done"
    /\ resp[1].op = "get_public_data"
    /\ KeyA \in DOMAIN resp[1].body
    /\ RowsFor(KeySecret) # {}
    /\ KeySecret \in DOMAIN memData

\* C2: the two surfaces read and write one shared store, so that Admin GET
\* /admin/data/all returns every record held by the store the Public Surface
\* writes (after Public POST a=1 and Admin POST _secret=2: a=1 and _secret=2).
C2_SharedStore ==
    [][get_all_data =>
          \A r \in items :
              /\ r.key \in DOMAIN adminResp'.body
              /\ adminResp'.body[r.key] = r.value]_vars

\* C3: request metrics are shared across surfaces: the count Admin GET
\* /admin/metrics reports is at least the number of Public GET /data calls
\* the worker's store has counted (0 when fresh, 1 after one Public GET).
C3_SharedMetrics ==
    [][local_get_metrics =>
          adminResp'.body.requests >= Head(metricsRows).requests]_vars

\* C5: a Public POST /data whose key starts with '_' is answered 403 at once
\* and changes no record and no metrics, whatever the prior state.
C5_PrivateWriteRejected ==
    [][\A p \in Workers, k \in Keys, v \in Values :
          (set_public_data(p, k, v) /\ k[1] = "_")
              => /\ pc'[p] = "done"
                 /\ resp'[p].status = 403
                 /\ UNCHANGED <<items, metricsRows, memData, memMetrics>>]_vars

\* A Public POST /data of a private key has been answered 403 while the
\* store holds records.
C5_Witness ==
    /\ pc[1] = "done"
    /\ resp[1].op = "set_public_data"
    /\ resp[1].key = KeySecret
    /\ resp[1].status = 403
    /\ items # {}

\* C4: the stored request counter never decreases, whatever the interleaving
\* of the get_data calls of the worker processes.
C4_Monotonic ==
    [][/\ Head(metricsRows)'.requests >= Head(metricsRows).requests
       /\ memMetrics'.requests >= memMetrics.requests]_vars

\* C6: concurrent set calls to one key leave one value, that of the last
\* committed set: a key never has two rows, every commit of set(k, v) leaves
\* k -> v, and nothing but a commit of a set to k or of a reset changes k's row.
C6_LastCommittedWins ==
    /\ [](\A k \in Keys :
            /\ Cardinality(RowsFor(k)) <= 1
            /\ \A r \in RowsFor(k) : r.value \in Values)
    /\ [][\A k \in Keys :
            /\ \A p \in Workers :
                 (set_data_commit(p) /\ loc[p].key = k)
                     => RowsFor(k)' = {[key |-> k, value |-> loc[p].value]}
            /\ RowsFor(k)' # RowsFor(k)
                 => \E p \in Workers :
                        \/ set_data_commit(p) /\ loc[p].key = k
                        \/ reset_data_commit(p)]_vars

\* Worker 1's set of a key has returned true; worker 2, whose earlier attempt
\* on the same key failed, is committing its other value over it.
C6_Witness ==
    /\ pc[1] = "done"
    /\ resp[1].op = "set_data"
    /\ resp[1].body = TRUE
    /\ pc[2] = "sd_commit"
    /\ loc[2].attempt >= 1
    /\ loc[2].found
    /\ loc[2].key = resp[1].key
    /\ loc[2].value # resp[1].value

\* C7 as stated: every one of the concurrent set calls to distinct keys
\* returns true.
C7_AllSucceed ==
    \A p \in Workers :
        (pc[p] = "done" /\ resp[p].op = "set_data") => resp[p].body = TRUE

\* C7 as amended: concurrent set calls to distinct keys do not disturb one
\* another.  A call that returned true has its record in the store and in
\* every get_all read from then on; a commit changes no other key's record;
\* a call returns false only when its last attempt fails on the lock.
C7_DistinctKeysIndependent ==
    /\ [](\A p \in Workers :
            (pc[p] = "done" /\ resp[p].op = "set_data" /\ resp[p].body = TRUE)
                => [key |-> resp[p].key, value |-> resp[p].value] \in items)
    /\ [][\A p \in Workers :
            /\ set_data_commit(p)
                 => \A k \in Keys \ {loc[p].key} : RowsFor(k)' = RowsFor(k)
            /\ get_data_read(p)
                 => \A q \in Workers :
                        (pc[q] = "done" /\ resp[q].op = "set_data" /\ resp[q].body = TRUE)
                            => /\ resp[q].key \in DOMAIN loc'[p].data
                               /\ loc'[p].data[resp[q].key] = resp[q].value
            /\ (pc[p] # "done" /\ pc'[p] = "done" /\ resp'[p].op = "set_data")
                 => IF resp'[p].body
                    THEN set_data_commit(p)
                    ELSE /\ loc[p].attempt = max_retries - 1
                         /\ LockedByOther(p)
                         /\ items' = items]_vars

\* Worker 1's set has returned true and worker 2's get_data is returning the
\* records of both workers' keys.
C7_Witness ==
    /\ pc[1] = "done"
    /\ resp[1].op = "set_data"
    /\ resp[1].body = TRUE
    /\ pc[2] = "done"
    /\ resp[2].op = "get_data"
    /\ DOMAIN resp[2].body = {OwnKey(1), OwnKey(2)}

\* C8: once the worker processes have run DatabaseStore.__init__, in any
\* interleaving, exactly one metrics row exists.
C8_ExactlyOneRow ==
    (\A p \in Workers : pc[p] = "idle") => Len(metricsRows) = 1

\* C9: reset succeeds and leaves the store empty every time, also on an empty
\* store; set(k, v) succeeds and leaves exactly one record for k, with value
\* v, also when k -> v is there already.  The same for the Admin Surface's
\* store.
C9_Idempotent ==
    /\ [](\A p \in Workers :
            (pc[p] = "done" /\ resp[p].op \in {"reset_data", "set_data"})
                => resp[p].body = TRUE)
    /\ [][/\ \A p \in Workers :
               /\ reset_data_commit(p) => items' = {}
               /\ \A k \in Keys :
                    (set_data_commit(p) /\ loc[p].key = k)
                        => RowsFor(k)' = {[key |-> k, value |-> loc[p].value]}
          /\ reset_all_data => memData' = EmptyDict
          /\ \A k \in Keys, v \in Values :
               set_admin_data(k, v)
                   => /\ DOMAIN memData' = DOMAIN memData \cup {k}
                      /\ memData'[k] = v]_vars

\* Worker 1's set(k, v) has returned true and worker 2, called after it, is
\* committing the same set(k, v) over the record it found.
C9_Witness ==
    /\ pc[1] = "done"
    /\ resp[1].op = "set_data"
    /\ resp[1].body = TRUE
    /\ pc[2] = "sd_commit"
    /\ loc[2].found
    /\ loc[2].key = resp[1].key
    /\ loc[2].value = resp[1].value
    /\ [key |-> loc[2].key, value |-> loc[2].value] \in items

\* C10: reset deletes every record and leaves the metrics row as it is; the
\* uptime of the metrics row never changes once written, and get_metrics
\* reports it in every call.
C10_ResetKeepsMetrics ==
    /\ [](\A p \in Workers :
            (pc[p] = "done" /\ resp[p].op = "get_metrics")
                => resp[p].body.uptime = Head(metricsRows).uptime)
    /\ [][/\ \A p \in Workers :
               reset_data_commit(p) => (items' = {} /\ metricsRows' = metricsRows)
          /\ metricsRows # <<>>
               => Head(metricsRows)'.uptime = Head(metricsRows).uptime]_vars

\* After reads and a reset, get_metrics is returning a snapshot whose uptime
\* lies in the past and whose counter has counted.
C10_Witness ==
    /\ pc[1] = "done"
    /\ resp[1].op = "reset_data"
    /\ pc[2] = "done"
    /\ resp[2].op = "get_metrics"
    /\ resp[2].body.requests > 0
    /\ resp[2].body.uptime < now

\* C11: set(key, value) ends after at most 3 attempts.  It returns true only
\* by committing an attempt and false only when the third attempt fails; a
\* failed earlier attempt is followed by the next one; no step of a set other
\* than its commit writes anything, so a set that returns false has left the
\* store as it was; every set that is started returns.
C11_BoundedRetry ==
    /\ [](\A p \in Workers : loc[p].attempt \in 0 .. 2)
    /\ [][\A p \in Workers :
            /\ (pc[p] # "done" /\ pc'[p] = "done" /\ resp'[p].op = "set_data")
                 => IF resp'[p].body
                    THEN set_data_commit(p)
                    ELSE /\ loc[p].attempt = 2
                         /\ pc[p] \in {"sd_query", "sd_flush"}
            /\ set_data_commit(p) => resp'[p].body = TRUE
            /\ (pc[p] \in {"sd_query", "sd_flush"} /\ <<pc[p], loc[p]>>' # <<pc[p], loc[p]>>)
                 => UNCHANGED <<items, metricsRows>>
            /\ (pc[p] \in {"sd_query", "sd_flush"} /\ loc'[p].attempt # loc[p].attempt
                   /\ pc'[p] # "done")
                 => /\ loc[p].attempt < 2
                    /\ loc'[p].attempt = loc[p].attempt + 1
                    /\ pc'[p] = "sd_query"]_vars
    /\ \A p \in Workers :
          (pc[p] \in {"sd_query", "sd_flush", "sd_commit"}) ~> (pc[p] = "done")

\* Worker 1's set has returned false after its third attempt, the store being
\* as worker 2's committed set of the same key left it.
C11_Witness ==
    /\ pc[1] = "done"
    /\ resp[1].op = "set_data"
    /\ resp[1].body = FALSE
    /\ pc[2] = "done"
    /\ resp[2].op = "set_data"
    /\ resp[2].body = TRUE
    /\ resp[2].key = resp[1].key
    /\ items = {[key |-> resp[2].key, value |-> resp[2].value]}

\* C12: get_data always returns a mapping.  A failed read of the records
\* leaves the empty mapping as the data; the metrics update, whether it
\* commits, finds no row or fails, returns the data as the read left it, and
\* a failed update writes nothing.
C12_GetAllNeverFails ==
    [][\A p \in Workers :
          /\ get_data_read_error(p)
               => /\ pc'[p] = "gd_metrics"
                  /\ loc'[p].data = EmptyDict
          /\ get_data_read(p) => loc'[p].data = DictOf(items)
          /\ (pc[p] \in {"gd_metrics", "gd_flush", "gd_commit"} /\ pc'[p] # "done")
               => loc'[p].data = loc[p].data
          /\ (pc[p] \in {"gd_read", "gd_metrics", "gd_flush", "gd_commit"} /\ pc'[p] = "done")
               => /\ pc[p] # "gd_read"
                  /\ resp'[p].op = "get_data"
                  /\ resp'[p].body = loc[p].data
          /\ get_data_metrics_error(p)
               => UNCHANGED <<items, metricsRows>>]_vars

\* Worker 1's get_data is returning the empty mapping although the store
\* holds the record worker 1 wrote before (only worker 1 writes that key and
\* nothing is reset, so its read has failed), and its metrics update has
\* failed as well: nothing has been counted.
C12_Witness ==
    /\ pc[1] = "done"
    /\ resp[1].op = "get_data"
    /\ resp[1].body = EmptyDict
    /\ RowsFor(OwnKey(1)) # {}
    /\ Head(metricsRows).requests = 0

\* C13: get_metrics writes nothing, neither records nor metrics, and always
\* returns a snapshot: the first metrics row when the query finds one, and
\* requests = 0 with last_access = None when there is no row or the query
\* fails.
C13_GetMetricsReadOnly ==
    [][\A p \in Workers :
          (get_metrics(p) \/ get_metrics_error(p))
              => /\ UNCHANGED <<items, metricsRows, writer, memData, memMetrics>>
                 /\ pc'[p] = "done"
                 /\ resp'[p].op = "get_metrics"
                 /\ resp'[p].body.requests \in Nat
                 /\ resp'[p].body.uptime \in 0 .. now
                 /\ (metricsRows = <<>> \/ get_metrics_error(p))
                      => /\ resp'[p].body.requests = 0
                         /\ resp'[p].body.last_access = None
                 /\ (metricsRows # <<>> /\ ~get_metrics_error(p))
                      => resp'[p].body = Head(metricsRows)]_vars

\* get_metrics is returning the default snapshot, which is not the metrics
\* row (the row has counted a request and has another uptime): its query
\* failed, or found no row yet.
C13_Witness ==
    /\ pc[1] = "done"
    /\ resp[1].op = "get_metrics"
    /\ resp[1].body.requests = 0
    /\ resp[1].body.last_access = None
    /\ metricsRows # <<>>
    /\ Head(metricsRows).requests > 0
    /\ resp[1].body.uptime # Head(metricsRows).uptime

\* C14: the probes of the Public Surface (GET /health, GET /, GET
\* /health/ready, GET /health/live) write nothing: records, request counter
\* and last_access are after the call what they were before it.  GET /health
\* reports the uptime of the snapshot get_metrics returns.
C14_ProbesReadOnly ==
    [][\A p \in Workers :
          /\ ProbeCall(p)
               => /\ UNCHANGED <<items, metricsRows, writer, memData, memMetrics>>
                  /\ pc'[p] = "done"
                  /\ resp'[p].status = 200
          /\ (health_check(p) /\ ~health_check_error(p))
               => resp'[p].body = Head(metricsRows).uptime]_vars

\* GET /health and GET /health/live are answering while the store holds a
\* record and the metrics row has counted a request.
C14_Witness ==
    /\ pc[1] = "done"
    /\ resp[1].op = "health_check"
    /\ pc[2] = "done"
    /\ resp[2].op = "liveness_check"
    /\ items # {}
    /\ Head(metricsRows).requests > 0
    /\ Head(metricsRows).last_access # None

\* C15: a Public POST /data with a non-private key answers 200 with the
\* "Set k = v" message only when set_data returned True, which it does by
\* committing the record k -> v; when set_data returned False the answer is
\* 500 without the message, and nothing was written.
C15_SuccessOnlyIfStored ==
    [][\A p \in Workers :
          (pc[p] # "done" /\ pc'[p] = "done" /\ resp'[p].op = "set_public_data"
             /\ ~IsPrivate(resp'[p].key))
              => IF set_data_commit(p)
                 THEN /\ resp'[p].status = 200
                      /\ resp'[p].body = "Set"
                      /\ resp'[p].key = loc[p].key
                      /\ \A k \in Keys :
                           loc[p].key = k
                               => RowsFor(k)' = {[key |-> k, value |-> loc[p].value]}
                 ELSE /\ resp'[p].status = 500
                      /\ resp'[p].body # "Set"
                      /\ loc[p].attempt = max_retries - 1
                      /\ items' = items]_vars

\* Worker 1's POST /data is answering 500, its set_data having returned False,
\* while worker 2's POST /data of the same key is answering 200 and its record
\* is in the store.
C15_Witness ==
    /\ pc[1] = "done"
    /\ resp[1].op = "set_public_data"
    /\ resp[1].status = 500
    /\ pc[2] = "done"
    /\ resp[2].op = "set_public_data"
    /\ resp[2].status = 200
    /\ resp[2].key = resp[1].key
    /\ [key |-> resp[2].key, value |-> resp[2].value] \in items

\* C16: every get_data whose metrics update commits raises the stored request
\* counter by exactly one, whatever the interleaving of the worker processes,
\* so that N such calls take the counter from c to c + N.
C16_ExactlyOnePerCall ==
    [][\A p \in Workers :
          get_data_metrics_commit(p)
              => Head(metricsRows)'.requests = Head(metricsRows).requests + 1]_vars

\* C17: in every reachable state the store holds at most one record per key,
\* whatever the interleaving of the set and reset calls of the worker
\* processes, two inserts of one absent key included.
C17_OneRecordPerKey ==
    \A r1, r2 \in items : r1.key = r2.key => r1 = r2

\* Both workers found the key absent; worker 1's insert is committed and has
\* returned true, worker 2 is about to flush its insert of another value.
C17_Witness ==
    /\ pc[1] = "done"
    /\ resp[1].op = "set_data"
    /\ resp[1].body = TRUE
    /\ pc[2] = "sd_flush"
    /\ ~loc[2].found
    /\ loc[2].key = resp[1].key
    /\ loc[2].value # resp[1].value
    /\ items = {[key |-> resp[1].key, value |-> resp[1].value]}

\* The record of the worker's own key.  Where each worker writes its own key
\* and nothing is reset, it is the record of the worker's last successful
\* set, and no other process writes it.
OwnRecord(p) == RowsFor(OwnKey(p))

\* C18 as stated: a get_data of the process that set k -> v with success, no
\* other process having written k or reset since, returns a mapping in which
\* k maps to v.
C18_ReadYourOwnWrite ==
    \A p \in Workers :
        (pc[p] = "done" /\ resp[p].op = "get_data" /\ OwnRecord(p) # {})
            => /\ OwnKey(p) \in DOMAIN resp[p].body
               /\ \A r \in OwnRecord(p) : resp[p].body[OwnKey(p)] = r.value

\* C18 as amended: such a get_data returns a mapping in which k maps to v when
\* its read of the records succeeds, and the empty mapping when it fails.
C18_ReadYourOwnWriteIfRead ==
    /\ [](\A p \in Workers :
            (pc[p] = "done" /\ resp[p].op = "get_data" /\ OwnRecord(p) # {})
                => \/ resp[p].body = EmptyDict
                   \/ /\ OwnKey(p) \in DOMAIN resp[p].body
                      /\ \A r \in OwnRecord(p) : resp[p].body[OwnKey(p)] = r.value)
    /\ [][\A p \in Workers :
            /\ (get_data_read(p) /\ OwnRecord(p) # {})
                 => /\ OwnKey(p) \in DOMAIN loc'[p].data
                    /\ \A r \in OwnRecord(p) : loc'[p].data[OwnKey(p)] = r.value
            /\ (pc[p] \in {"gd_metrics", "gd_flush", "gd_commit"} /\ loc[p].data # EmptyDict
                   /\ pc'[p] = "done")
                 => resp'[p].body = loc[p].data
            /\ OwnRecord(p)' # OwnRecord(p) => set_data_commit(p)]_vars

\* Worker 1, which set its key to "2", is getting it back from its get_data
\* while worker 2 holds the write lock.
C18_Witness ==
    /\ pc[1] = "done"
    /\ resp[1].op = "get_data"
    /\ OwnKey(1) \in DOMAIN resp[1].body
    /\ resp[1].body[OwnKey(1)] = "2"
    /\ OwnRecord(1) = {[key |-> OwnKey(1), value |-> "2"]}
    /\ writer = 2

\* C19: on every startup path the socket file is removed before the admin
\* listener binds: the listener binds only from the step that removed the
\* file, the removal leaves no file whether or not one was there, and no
\* stale file is at the path when the listener binds.
C19_RemovedBeforeBind ==
    /\ [](\A l \in Launchers :
            boot[l].pc = "bind" => sockets[socket_path(boot[l].entry)] # "stale")
    /\ [][\A l \in Launchers :
            /\ (boot[l].pc = "unlink" /\ boot'[l] # boot[l] /\ boot'[l].pc # "off")
                 => /\ boot'[l].pc = "bind"
                    /\ sockets'[socket_path(boot[l].entry)] = "absent"
            /\ (boot[l].pc # "bind" /\ boot'[l].pc = "bind") => boot[l].pc = "unlink"
            /\ (boot[l].pc # "serving" /\ boot'[l].pc = "serving")
                 => /\ boot[l].pc = "bind"
                    /\ sockets[socket_path(boot[l].entry)] # "stale"]_vars

\* The development start has removed the local socket file and is about to
\* bind, while the admin service, started again after a crash that left its
\* socket file behind, has yet to remove that stale file.
C19_Witness ==
    /\ boot["server"] = [entry |-> "development", pc |-> "bind"]
    /\ sockets["local"] = "absent"
    /\ boot["admin"] = [entry |-> "admin_service", pc |-> "unlink"]
    /\ sockets["admin"] = "stale"

\* C20: Admin GET /admin/status writes: each call raises the request counter
\* of the store it reads (the in-memory DataStore) by exactly one and sets
\* last_access; the metrics it returns are the snapshot from before that
\* increment; data_items is the number of records in that store at the call.
\* The records are left as they are.
C20_StatusCounts ==
    [][admin_status =>
          /\ memMetrics'.requests = memMetrics.requests + 1
          /\ memMetrics'.last_access = now
          /\ memMetrics'.uptime = memMetrics.uptime
          /\ adminResp'.body.metrics = memMetrics
          /\ adminResp'.body.data_items = Cardinality(DOMAIN memData)
          /\ UNCHANGED <<memData, items, metricsRows>>]_vars

\* GET /admin/status is answering with two records counted and the metrics
\* from before its own increment: one request in the snapshot, two counted.
C20_Witness ==
    /\ adminResp.op = "admin_status"
    /\ adminResp.body.data_items = 2
    /\ adminResp.body.metrics.requests = 1
    /\ memMetrics.requests = 2
    /\ Cardinality(DOMAIN memData) = 2

=============================================================================
